---- MODULE Spec2Model ----
(***************************************************************************)
(* Model of the per-port operation coordinator of unifi_webhook_server.py: *)
(* UniFiPortController (rate limiter, device cooldown gate, deferred queue *)
(* and its worker thread, status inference).                               *)
(*                                                                         *)
(* Time.  time.time() is a float of seconds; here it is an integer number  *)
(* of ticks, TicksPerSec ticks to the second, so that readings between two *)
(* whole seconds exist and int() has something to truncate.                *)
(*                                                                         *)
(* Threads.  Flask serves every request in a thread of its own, and the    *)
(* controller takes no lock: a request handler is a sequence of steps, one *)
(* per read or write of the shared dictionaries, and the steps of          *)
(* different handlers and of the queue worker interleave freely.           *)
(***************************************************************************)
EXTENDS Integers, Sequences, FiniteSets, TLC

\* ------------------------------------------------------------------ bounds

\* Requests the front end accepts in one behaviour.
MaxRequests == 3

\* The same, in the behaviours of PowerOff and PowerCycle requests alone.
MaxQueueRequests == 4

\* Times the clock is advanced by the environment in one behaviour (the
\* worker's sleep advances it besides).
MaxAdvances == 1

\* Clock reading at process start, in ticks (time.time() is far from 0).
BootTime == 200

\* Whole seconds the environment lets pass in the behaviours whose requests
\* come at whole seconds.
ScenarioSeconds == 3

\* ------------------------------------------------------- program constants

TicksPerSec == 2

rate_limit_seconds == 30

unifi_cooldown == 10

RateLimitTicks == rate_limit_seconds * TicksPerSec

CooldownTicks == unifi_cooldown * TicksPerSec

\* Configured ports (config["ports"]) and concurrent request contexts.
Ports == {1, 2}

Threads == {1, 2}

LimitedOps == {"power_off", "power_cycle"}

\* Amounts, in ticks, by which the environment lets time pass in one step:
\* half a second, the cooldown, half a second less than the window.
AdvanceSteps == {1, CooldownTicks, RateLimitTicks - 1}

\* Outcomes of one call of _execute_power_cycle: HTTP 200, a failure result
\* (another status, or an exception of the request caught inside), or an
\* exception that escapes it (raised before its try block).
Outcomes == {"ok", "fail", "raise"}

VARIABLES
    now,                   \* time.time(), in ticks
    last_operation_time,   \* dict: operation key -> time of last accepted request
    last_unifi_operation,  \* dict: port -> time of last successful device call
    operation_queue,       \* Queue(): sequence of jobs
    unfinished_tasks,      \* Queue's count of put() not yet matched by task_done()
    wpc,                   \* queue worker: "get", "sleep", "exec", "inflight", "stopped"
    wjob,                  \* queue worker: operation_data
    wdeq,                  \* queue worker: time its get() returned the job
    wcalls,                \* queue worker: calls of _execute_power_cycle made for the job
    hpc,                   \* handler thread: position in power_off_port/power_cycle_port
    hport,                 \* handler thread: port
    hop,                   \* handler thread: operation
    result,                \* history: the dict the last finished request returned
    response,              \* history: the HTTP response its route made of it
    njobs,                 \* history: jobs put on the queue so far
    ndeq,                  \* history: jobs the worker has taken off the queue
    nissued,               \* history: device calls the worker has issued
    ndone,                 \* history: jobs the worker has finished (task_done)
    nok,                   \* history: jobs whose device call succeeded
    lastIssued,            \* history: port -> last of power_on/power_off requested
    offAfterOn,            \* history: port -> a power_off was recorded strictly after the last power_on
    nreq,                  \* requests so far
    maxreq,                \* requests the behaviour may hold
    nadv                   \* clock advances so far

vars == <<now, last_operation_time, last_unifi_operation, operation_queue,
          unfinished_tasks, wpc, wjob, wdeq, wcalls, hpc, hport, hop, result,
          response, njobs, ndeq, nissued, ndone, nok, lastIssued, offAfterOn, nreq, maxreq,
          nadv>>

\* The variables by group, for the UNCHANGED clauses.
dicts == <<last_operation_time, last_unifi_operation>>

queue == <<operation_queue, unfinished_tasks, njobs>>

worker == <<wpc, wjob, wdeq, wcalls, ndeq, nissued, ndone, nok>>

handlers == <<hpc, hport, hop>>

requests == <<lastIssued, offAfterOn>>

budget == <<nreq, maxreq, nadv>>

\* ---------------------------------------------------------------- helpers

\* dict.get(key, default)
Get(d, k, default) == IF k \in DOMAIN d THEN d[k] ELSE default

\* d[k] = v
Put(d, k, v) == [x \in (DOMAIN d) \cup {k} |-> IF x = k THEN v ELSE d[x]]

Max(a, b) == IF a >= b THEN a ELSE b

\* int(x / TicksPerSec): Python's int() truncates toward zero.
IntSeconds(ticks) ==
    IF ticks >= 0 THEN ticks \div TicksPerSec ELSE -((-ticks) \div TicksPerSec)

NoResult == [none |-> TRUE]

NoResponse == [none |-> TRUE]

NoJob == [port |-> 0, action |-> "", delay |-> 0, id |-> 0]

\* --------------------------------------------------------- pure functions

\* f"{port}:{operation}": an injective pairing of port and operation.
_get_operation_key(port, operation) == <<port, operation>>

\* The test of _is_port_operation_rate_limited, with the dict and the clock
\* reading explicit.
IsRateLimitedAt(lot, port, operation, t) ==
    LET key == _get_operation_key(port, operation)
    IN  IF key \notin DOMAIN lot
        THEN FALSE
        ELSE (t - lot[key]) < RateLimitTicks

_is_port_operation_rate_limited(port, operation) ==
    IsRateLimitedAt(last_operation_time, port, operation, now)

\* A gate that opens only after more than the cooldown.
_can_execute_immediately_strict(port) ==
    IF port \notin DOMAIN last_unifi_operation
    THEN TRUE
    ELSE (now - last_unifi_operation[port]) > CooldownTicks

\* _can_execute_immediately
_can_execute_immediately(port) ==
    IF port \notin DOMAIN last_unifi_operation
    THEN TRUE
    ELSE (now - last_unifi_operation[port]) >= CooldownTicks

\* A response that always asks for the whole window.
_get_rate_limit_response_window(port, action) ==
    [success |-> FALSE, action |-> action, port |-> port,
     rate_limited |-> TRUE, retry_after |-> rate_limit_seconds, at |-> now]

\* _get_rate_limit_response ("at" is the clock reading it was computed at)
_get_rate_limit_response(port, action) ==
    LET key == _get_operation_key(port, action)
        time_remaining == RateLimitTicks - (now - Get(last_operation_time, key, 0))
    IN  [success |-> FALSE, action |-> action, port |-> port,
         rate_limited |-> TRUE, retry_after |-> IntSeconds(time_remaining),
         at |-> now]

\* A comparison that is not strict.
PortStatusNotStrict(port) ==
    LET power_off_time == Get(last_operation_time, <<port, "power_off">>, 0)
        power_on_time == Get(last_operation_time, <<port, "power_on">>, 0)
    IN  IF power_off_time >= power_on_time THEN "stopped" ELSE "running"

\* The status get_port_status computes.
PortStatus(port) ==
    LET power_off_time == Get(last_operation_time, <<port, "power_off">>, 0)
        power_on_time == Get(last_operation_time, <<port, "power_on">>, 0)
    IN  IF power_off_time > power_on_time THEN "stopped" ELSE "running"

\* The dict _execute_power_cycle returns for an outcome.
ExecResult(port, action, outcome) ==
    IF outcome = "ok"
    THEN [success |-> TRUE, action |-> action, port |-> port, status |-> "cycling"]
    ELSE [success |-> FALSE, action |-> action, port |-> port, error |-> "HTTP"]

\* A delay that is the whole cooldown, whatever time has passed.
QueueDelayFull(port) == CooldownTicks

\* Delay, in ticks, of a job queued now for port.
QueueDelay(port) ==
    CooldownTicks - (now - Get(last_unifi_operation, port, 0))

\* str(n) of an integer: its decimal digits, as a sequence of characters.
Digit(d) == <<"0", "1", "2", "3", "4", "5", "6", "7", "8", "9">>[d + 1]

RECURSIVE Str(_)
Str(n) ==
    IF n < 0 THEN <<"-">> \o Str(-n)
    ELSE IF n < 10 THEN <<Digit(n)>>
    ELSE Str(n \div 10) \o <<Digit(n % 10)>>

\* A route that sends the default Retry-After with every 429.
RouteResponseDefaultHeader(res) ==
    IF ~res.success /\ Get(res, "rate_limited", FALSE)
    THEN [code |-> 429, retry_after_header |-> Str(30)]
    ELSE [code |-> IF res.success THEN 200 ELSE 500]

\* The status code and the Retry-After header the routes power_on, power_off
\* and power_cycle make of the controller's result.
RouteResponse(res) ==
    IF ~res.success /\ Get(res, "rate_limited", FALSE)
    THEN [code |-> 429, retry_after_header |-> Str(Get(res, "retry_after", 30))]
    ELSE [code |-> IF res.success THEN 200 ELSE 500]

\* The same for the route power_status, which sends the status text.
StatusRouteResponse(res) ==
    IF res.success /\ "status" \in DOMAIN res
    THEN [code |-> 200, body |-> res.status]
    ELSE [code |-> IF res.success THEN 200 ELSE 500]

\* Flask's answer to an exception no handler catches.
UnhandledResponse == [code |-> 500]

\* ------------------------------------------------------------------- Init

Start(requests_allowed) ==
    /\ maxreq = requests_allowed
    /\ now = BootTime
    /\ last_operation_time = <<>>
    /\ last_unifi_operation = <<>>
    /\ operation_queue = <<>>
    /\ unfinished_tasks = 0
    /\ wpc = "get"
    /\ wjob = NoJob
    /\ wdeq = 0
    /\ wcalls = 0
    /\ hpc = [t \in Threads |-> "idle"]
    /\ hport = [t \in Threads |-> 0]
    /\ hop = [t \in Threads |-> ""]
    /\ result = NoResult
    /\ response = NoResponse
    /\ njobs = 0
    /\ ndeq = 0
    /\ nissued = 0
    /\ ndone = 0
    /\ nok = 0
    /\ lastIssued = [p \in Ports |-> "none"]
    /\ offAfterOn = [p \in Ports |-> FALSE]
    /\ nreq = 0
    /\ nadv = 0

Init == Start(MaxRequests)

\* ------------------------------------------------- the request handlers

\* _record_port_operation: last_operation_time[key] = time.time()
_record_port_operation(port, operation) ==
    /\ last_operation_time' =
           Put(last_operation_time, _get_operation_key(port, operation), now)
    /\ offAfterOn' =
           IF operation = "power_off"
           THEN [offAfterOn EXCEPT ![port] =
                    \/ <<port, "power_on">> \notin DOMAIN last_operation_time
                    \/ now > last_operation_time[<<port, "power_on">>]]
           ELSE IF operation = "power_on"
           THEN [offAfterOn EXCEPT ![port] = FALSE]
           ELSE offAfterOn

\* A request for port p arrives while the budget lasts.  The ports are
\* interchangeable, so the first request of a behaviour is for the lowest.
Arrives(p) ==
    /\ nreq < maxreq
    /\ nreq = 0 => \A q \in Ports : p <= q
    /\ nreq' = nreq + 1
    /\ UNCHANGED maxreq

\* Thread t is free to serve a request.  The threads are interchangeable and
\* an idle thread holds no state, so the first free one serves it.
Free(t) ==
    /\ hpc[t] = "idle"
    /\ \A u \in Threads : u < t => hpc[u] # "idle"

\* The handler returns: its thread is free again.
Returns(t) ==
    /\ hpc' = [hpc EXCEPT ![t] = "idle"]
    /\ hport' = [hport EXCEPT ![t] = 0]
    /\ hop' = [hop EXCEPT ![t] = ""]

\* A power_on_port that goes through the rate limiter as the other two do.
power_on_port_limited(p) ==
    /\ Arrives(p)
    /\ lastIssued' = [lastIssued EXCEPT ![p] = "power_on"]
    /\ IF _is_port_operation_rate_limited(p, "power_on")
       THEN /\ result' = _get_rate_limit_response(p, "power_on")
            /\ UNCHANGED <<last_operation_time, offAfterOn>>
       ELSE /\ _record_port_operation(p, "power_on")
            /\ result' = [success |-> TRUE, action |-> "power_on", port |-> p,
                          status |-> "no_action_needed"]
    /\ response' = RouteResponse(result')
    /\ UNCHANGED <<now, last_unifi_operation, queue, worker, handlers, nadv>>

\* power_on_port: one write of the dict and no other step, so it holds no thread.
power_on_port(p) ==
    /\ Arrives(p)
    /\ _record_port_operation(p, "power_on")
    /\ result' = [success |-> TRUE, action |-> "power_on", port |-> p,
                  status |-> "no_action_needed"]
    /\ response' = RouteResponse(result')
    /\ lastIssued' = [lastIssued EXCEPT ![p] = "power_on"]
    /\ UNCHANGED <<now, last_unifi_operation, queue, worker, handlers, nadv>>

\* A status that waits for the device: "stopped" only once no job for the
\* port is left on the queue.
get_port_status_by_queue(p) ==
    /\ Arrives(p)
    /\ result' = [success |-> TRUE, action |-> "status", port |-> p,
                  status |-> IF /\ PortStatus(p) = "stopped"
                                /\ \A i \in DOMAIN operation_queue :
                                       operation_queue[i].port # p
                             THEN "status: stopped" ELSE "status: running",
                  method |-> "operation_tracking"]
    /\ response' = StatusRouteResponse(result')
    /\ UNCHANGED <<now, dicts, queue, worker, handlers, requests, nadv>>

\* get_port_status
get_port_status(p) ==
    /\ Arrives(p)
    /\ result' = [success |-> TRUE, action |-> "status", port |-> p,
                  status |-> IF PortStatus(p) = "stopped"
                             THEN "status: stopped" ELSE "status: running",
                  method |-> "operation_tracking"]
    /\ response' = StatusRouteResponse(result')
    /\ UNCHANGED <<now, dicts, queue, worker, handlers, requests, nadv>>

\* What the request leaves in lastIssued.
NoteIssued(p, op) ==
    IF op = "power_off" THEN [lastIssued EXCEPT ![p] = "power_off"] ELSE lastIssued

\* A rejection that records the rejected attempt, so that every retry
\* starts the window again.
RateLimitedExtends(p, op) ==
    /\ Arrives(p)
    /\ _is_port_operation_rate_limited(p, op)
    /\ result' = _get_rate_limit_response(p, op)
    /\ response' = RouteResponse(result')
    /\ lastIssued' = NoteIssued(p, op)
    /\ _record_port_operation(p, op)
    /\ UNCHANGED <<now, last_unifi_operation, queue, worker, handlers, nadv>>

\* power_off_port / power_cycle_port when _is_port_operation_rate_limited is
\* true: return self._get_rate_limit_response(port, op).
RateLimited(p, op) ==
    /\ Arrives(p)
    /\ _is_port_operation_rate_limited(p, op)
    /\ result' = _get_rate_limit_response(p, op)
    /\ response' = RouteResponse(result')
    /\ lastIssued' = NoteIssued(p, op)
    /\ UNCHANGED <<now, dicts, queue, worker, handlers, offAfterOn, nadv>>

\* power_off_port / power_cycle_port when it is false: the handler goes on
\* to record the operation, in a step of its own.
Accepted(t, p, op) ==
    /\ Arrives(p)
    /\ Free(t)
    /\ ~_is_port_operation_rate_limited(p, op)
    /\ hport' = [hport EXCEPT ![t] = p]
    /\ hop' = [hop EXCEPT ![t] = op]
    /\ hpc' = [hpc EXCEPT ![t] = "record"]
    /\ lastIssued' = NoteIssued(p, op)
    /\ UNCHANGED <<now, dicts, queue, worker, result, response, offAfterOn, nadv>>

\* A put that serves the newest job first, as a LifoQueue would.
QueuePutFirst(q, job) == <<job>> \o q

\* Queue.put
QueuePut(q, job) == Append(q, job)

\* self._record_port_operation(port, op), then _can_execute_immediately(port)
\* is true: the handler is about to call _execute_power_cycle.
RecordThenExecute(t) ==
    /\ hpc[t] = "record"
    /\ _record_port_operation(hport[t], hop[t])
    /\ _can_execute_immediately(hport[t])
    /\ hpc' = [hpc EXCEPT ![t] = "exec"]
    /\ UNCHANGED <<now, last_unifi_operation, queue, worker, hport, hop, result, response,
                   lastIssued, budget>>

\* self._record_port_operation(port, op), then _can_execute_immediately(port)
\* is false: compute the delay, put the job, return "queued".
RecordThenEnqueue(t) ==
    /\ hpc[t] = "record"
    /\ _record_port_operation(hport[t], hop[t])
    /\ ~_can_execute_immediately(hport[t])
    /\ LET delay == QueueDelay(hport[t])
       IN  /\ operation_queue' =
                  QueuePut(operation_queue,
                           [port |-> hport[t], action |-> hop[t],
                            delay |-> Max(0, delay), id |-> njobs + 1])
           /\ result' = [success |-> TRUE, action |-> hop[t], port |-> hport[t],
                         status |-> "queued", queued_delay |-> Max(0, delay),
                         at |-> now]
    /\ response' = RouteResponse(result')
    /\ unfinished_tasks' = unfinished_tasks + 1
    /\ njobs' = njobs + 1
    /\ Returns(t)
    /\ UNCHANGED <<now, last_unifi_operation, worker, lastIssued, budget>>

\* result = self._execute_power_cycle(port, op): the call is issued.
ImmediateCall(t) ==
    /\ hpc[t] = "exec"
    /\ hpc' = [hpc EXCEPT ![t] = "inflight"]
    /\ UNCHANGED <<now, dicts, queue, worker, hport, hop, result, response, requests,
                   budget>>

\* A record of every device call that ended, successful or not.
RecordDeviceAttempt(port, outcome) == Put(last_unifi_operation, port, now)

\* What a device call that ended with outcome leaves in last_unifi_operation:
\* if result["success"]: self.last_unifi_operation[port] = time.time()
RecordDeviceActivity(port, outcome) ==
    IF outcome = "ok"
    THEN Put(last_unifi_operation, port, now)
    ELSE last_unifi_operation

\* A handler that forgets the recorded operation when its device call did not
\* succeed, so that the limiter would throttle successes only.
ImmediateReturnForgets(t, outcome) ==
    /\ hpc[t] = "inflight"
    /\ last_unifi_operation' = RecordDeviceActivity(hport[t], outcome)
    /\ last_operation_time' =
           IF outcome = "ok"
           THEN last_operation_time
           ELSE [k \in DOMAIN last_operation_time
                         \ {_get_operation_key(hport[t], hop[t])}
                    |-> last_operation_time[k]]
    /\ result' = IF outcome = "raise"
                  THEN [success |-> FALSE, raised |-> TRUE, action |-> hop[t],
                        port |-> hport[t]]
                  ELSE ExecResult(hport[t], hop[t], outcome)
    /\ response' = IF outcome = "raise"
                    THEN UnhandledResponse
                    ELSE RouteResponse(result')
    /\ Returns(t)
    /\ UNCHANGED <<now, queue, worker, requests, budget>>

\* The call returns (or raises), and the handler with it.
ImmediateReturn(t, outcome) ==
    /\ hpc[t] = "inflight"
    /\ last_unifi_operation' = RecordDeviceActivity(hport[t], outcome)
    /\ result' = IF outcome = "raise"
                  THEN [success |-> FALSE, raised |-> TRUE, action |-> hop[t],
                        port |-> hport[t]]
                  ELSE ExecResult(hport[t], hop[t], outcome)
    /\ response' = IF outcome = "raise"
                    THEN UnhandledResponse
                    ELSE RouteResponse(result')
    /\ Returns(t)
    /\ UNCHANGED <<now, last_operation_time, queue, worker, requests, budget>>

\* ------------------------------------------------------ the queue worker

\* Queue.get: the oldest job.
QueueFront(q) == Head(q)

QueueRest(q) == Tail(q)

\* A get() by a second worker thread, which does not wait for the device call
\* of the first to return.
WorkerGetWhileBusy ==
    /\ wpc \in {"get", "inflight"}
    /\ Len(operation_queue) > 0
    /\ wjob' = QueueFront(operation_queue)
    /\ operation_queue' = QueueRest(operation_queue)
    /\ wdeq' = now
    /\ wcalls' = 0
    /\ ndeq' = ndeq + 1
    /\ wpc' = "sleep"
    /\ UNCHANGED <<now, dicts, unfinished_tasks, njobs, nissued, ndone, nok,
                   handlers, result, response, requests, budget>>

\* operation_data = self.operation_queue.get(): blocks while the queue is empty.
\* (No code puts the None sentinel, so the worker never takes the break.)
WorkerGet ==
    /\ wpc = "get"
    /\ Len(operation_queue) > 0
    /\ wjob' = QueueFront(operation_queue)
    /\ operation_queue' = QueueRest(operation_queue)
    /\ wdeq' = now
    /\ wcalls' = 0
    /\ ndeq' = ndeq + 1
    /\ wpc' = "sleep"
    /\ UNCHANGED <<now, dicts, unfinished_tasks, njobs, nissued, ndone, nok,
                   handlers, result, response, requests, budget>>

\* A sleep that returns at once.
SleepSkipped(start, delay) == start

\* The clock reading at which time.sleep(delay), begun at start, returns.
SleepUntil(start, delay) == start + delay

\* time.sleep(delay): the clock is at least delay later when it returns.
WorkerSleep ==
    /\ wpc = "sleep"
    /\ now' = Max(now, SleepUntil(wdeq, wjob.delay))
    /\ wpc' = "exec"
    /\ UNCHANGED <<dicts, queue, wjob, wdeq, wcalls, ndeq, nissued, ndone, nok,
                   handlers, result, response, requests, budget>>

\* A worker that holds its call back while a handler's call on the same port
\* is in flight, as under a per-port lock.
WorkerCallExclusive ==
    /\ wpc = "exec"
    /\ \A t \in Threads : ~(hpc[t] = "inflight" /\ hport[t] = wjob.port)
    /\ wcalls' = wcalls + 1
    /\ nissued' = nissued + 1
    /\ wpc' = "inflight"
    /\ UNCHANGED <<now, dicts, queue, wjob, wdeq, ndeq, ndone, nok, handlers,
                   result, response, requests, budget>>

\* result = self._execute_power_cycle(port, action): the call is issued.
WorkerCall ==
    /\ wpc = "exec"
    /\ wcalls' = wcalls + 1
    /\ nissued' = nissued + 1
    /\ wpc' = "inflight"
    /\ UNCHANGED <<now, dicts, queue, wjob, wdeq, ndeq, ndone, nok, handlers,
                   result, response, requests, budget>>

\* A worker that a failed or raising job ends.
WorkerStopsOnError(outcome) == IF outcome = "ok" THEN "get" ELSE "stopped"

\* Where the worker goes once a job is processed: round the while True loop,
\* whatever the outcome (the except clause ends in the loop as well).
WorkerAfterJob(outcome) == "get"

\* A worker that puts a job that did not succeed back on the queue.
QueueRetryFailed(q, job, outcome) == IF outcome = "ok" THEN q ELSE Append(q, job)

\* The queue after the worker has processed a job: nothing is put back.
QueueAfterJob(q, job, outcome) == q

\* The call returns or raises: on success last_unifi_operation[port] =
\* time.time(); on failure a warning; on an exception the except clause; in
\* each case task_done() and the next round of the loop.
WorkerReturn(outcome) ==
    /\ wpc = "inflight"
    /\ last_unifi_operation' = RecordDeviceActivity(wjob.port, outcome)
    /\ operation_queue' = QueueAfterJob(operation_queue, wjob, outcome)
    /\ unfinished_tasks' = unfinished_tasks - 1
    /\ ndone' = ndone + 1
    /\ nok' = IF outcome = "ok" THEN nok + 1 ELSE nok
    /\ wpc' = WorkerAfterJob(outcome)
    /\ IF WorkerAfterJob(outcome) = "get"
       THEN wjob' = NoJob /\ wdeq' = 0 /\ wcalls' = 0
       ELSE UNCHANGED <<wjob, wdeq, wcalls>>
    /\ UNCHANGED <<now, last_operation_time, njobs, ndeq, nissued, handlers,
                   result, response, requests, budget>>

\* ------------------------------------------------------------- the clock

\* Time passes, by half a second or more, only while every thread waits: a
\* handler for a request or for the device's answer, the worker in get(), in
\* sleep() or for the device's answer.  The statements in between take no
\* time that the clock's resolution here could show.
Advance(d) ==
    /\ nadv < MaxAdvances
    /\ \A t \in Threads : hpc[t] \in {"idle", "inflight"}
    /\ wpc # "exec"
    /\ now' = now + d
    /\ nadv' = nadv + 1
    /\ UNCHANGED <<dicts, queue, worker, handlers, result, response, requests, nreq, maxreq>>

\* ------------------------------------------------------------------- Next

\* The steps of the program with the request contexts T.
NextWith(T) ==
    \/ \E p \in Ports : power_on_port(p)
    \/ \E p \in Ports : get_port_status(p)
    \/ \E p \in Ports, op \in LimitedOps : RateLimited(p, op)
    \/ \E t \in T, p \in Ports, op \in LimitedOps : Accepted(t, p, op)
    \/ \E t \in T : RecordThenExecute(t)
    \/ \E t \in T : RecordThenEnqueue(t)
    \/ \E t \in T : ImmediateCall(t)
    \/ \E t \in T, o \in Outcomes : ImmediateReturn(t, o)
    \/ WorkerGet
    \/ WorkerSleep
    \/ WorkerCall
    \/ \E o \in Outcomes : WorkerReturn(o)
    \/ \E d \in AdvanceSteps : Advance(d)

\* One request context at a time (its requests still overlap the worker and
\* the one-step requests).
Next == NextWith({1})

Spec == Init /\ [][Next]_vars

\* Two request contexts at a time.
ConcNext == NextWith(Threads)

ConcSpec == Init /\ [][ConcNext]_vars

\* The steps of the queue worker.
WorkerNext ==
    \/ WorkerGet
    \/ WorkerSleep
    \/ WorkerCall
    \/ \E o \in Outcomes : WorkerReturn(o)

\* PowerOff and PowerCycle requests alone, one request context, and the
\* clock advanced by the worker's sleep and by half seconds: the behaviours
\* that fill the queue.
QueueNext ==
    \/ \E p \in Ports, op \in LimitedOps : RateLimited(p, op)
    \/ \E p \in Ports, op \in LimitedOps : Accepted(1, p, op)
    \/ RecordThenExecute(1)
    \/ RecordThenEnqueue(1)
    \/ ImmediateCall(1)
    \/ \E o \in Outcomes : ImmediateReturn(1, o)
    \/ WorkerNext
    \/ Advance(1)

QueueInit == Start(MaxQueueRequests)

QueueSpec == QueueInit /\ [][QueueNext]_vars

\* One second passes, while every thread waits, up to ScenarioSeconds after
\* the start.
OneSecond ==
    /\ now + TicksPerSec <= BootTime + ScenarioSeconds * TicksPerSec
    /\ \A t \in Threads : hpc[t] \in {"idle", "inflight"}
    /\ wpc # "exec"
    /\ now' = now + TicksPerSec
    /\ UNCHANGED <<dicts, queue, worker, handlers, result, response, requests, budget>>

\* PowerOff and PowerCycle requests arriving at whole seconds, one request
\* context.
ScenarioNext ==
    \/ \E p \in Ports, op \in LimitedOps : RateLimited(p, op)
    \/ \E p \in Ports, op \in LimitedOps : Accepted(1, p, op)
    \/ RecordThenExecute(1)
    \/ RecordThenEnqueue(1)
    \/ ImmediateCall(1)
    \/ \E o \in Outcomes : ImmediateReturn(1, o)
    \/ WorkerNext
    \/ OneSecond

ScenarioSpec == Init /\ [][ScenarioNext]_vars

\* The worker is a thread of its own that the scheduler does not starve, and
\* every call of _execute_power_cycle returns or raises.
WorkerFairness ==
    /\ WF_vars(WorkerGet)
    /\ WF_vars(WorkerSleep)
    /\ WF_vars(WorkerCall)
    /\ WF_vars(\E o \in Outcomes : WorkerReturn(o))

LiveSpec == QueueSpec /\ WorkerFairness

\* ----------------------------------------------------------------- claims

\* C1: of two PowerCycle (or two PowerOff) requests on the same port that run
\* concurrently, exactly one passes the rate-limit check: never are two
\* handlers past the check of the same port and operation with neither
\* having recorded it yet.
C1_OneAccepted ==
    \A t1 \in Threads, t2 \in Threads :
        (t1 # t2 /\ hpc[t1] = "record" /\ hpc[t2] = "record")
            => ~(hport[t1] = hport[t2] /\ hop[t1] = hop[t2])

\* A device call on port p is issued in this step, by a handler or by the worker.
CallIssuedOn(p) ==
    \/ \E t \in Threads : hpc[t] = "exec" /\ hpc'[t] = "inflight" /\ hport[t] = p
    \/ wpc = "exec" /\ wpc' = "inflight" /\ wjob.port = p

\* C2: once a device call on port p has succeeded at time t (the time
\* last_unifi_operation[p] holds), no device call on p is issued before
\* t + 10 s, from the immediate path or by the worker.
C2_CooldownSpacing ==
    [][\A p \in Ports :
          (CallIssuedOn(p) /\ p \in DOMAIN last_unifi_operation)
              => now >= last_unifi_operation[p] + CooldownTicks]_vars

\* The last finished request was rejected by the rate limiter.
Rejected == Get(result, "rate_limited", FALSE)

\* C3: a request of the same operation on the same port within 30 s of an
\* accepted one returns rate_limited = true with retry_after in (0, 30].
C3_RetryAfterInRange ==
    Rejected => (result.retry_after > 0 /\ result.retry_after <= rate_limit_seconds)

\* C4: a request rejected at time t with retry_after = r, no request of its
\* port and operation having been accepted since, is accepted when issued
\* again at t + r.
C4_RetryAfterSuffices ==
    (/\ Rejected
     /\ last_operation_time[_get_operation_key(result.port, result.action)] <= result.at)
        => ~IsRateLimitedAt(last_operation_time, result.port, result.action,
                            result.at + result.retry_after * TicksPerSec)

\* 1 if the worker is at one of the positions, else 0.
WorkerAt(positions) == IF wpc \in positions THEN 1 ELSE 0

\* Every job put on the queue is on the queue, with the worker, or finished;
\* the worker has called the device once for every finished job, once for
\* the job whose call is in flight, and not yet for the job it sleeps on.
JobsAccounted ==
    /\ njobs = Len(operation_queue) + ndeq
    /\ ndeq = ndone + WorkerAt({"sleep", "exec", "inflight"})
    /\ nissued = ndone + WorkerAt({"inflight"})
    /\ wcalls = WorkerAt({"inflight"})
    /\ unfinished_tasks = njobs - ndone

\* The worker's device call returns or raises in this step.
WorkerReturns == wpc = "inflight" /\ wpc' # "inflight"

\* C5: every deferred job makes the worker call the device for its port
\* exactly once, no earlier than the job's delay after the worker took it
\* off the queue, and the worker sets last_unifi_operation[port] only if the
\* call reports success.
C5_DeferredOnce ==
    [][/\ JobsAccounted'
       /\ (wpc' \in {"exec", "inflight"}) => (now' >= wdeq' + wjob'.delay)
       /\ WorkerReturns =>
              /\ wcalls = 1
              /\ last_unifi_operation' # last_unifi_operation => nok' = nok + 1
              /\ \A p \in Ports \ {wjob.port} :
                     Get(last_unifi_operation', p, 0) = Get(last_unifi_operation, p, 0)
      ]_vars

\* A deferred job with a delay still to run has been slept on and called.
C5_Witness ==
    /\ wpc = "inflight"
    /\ wjob.delay > 0
    /\ wdeq + wjob.delay > BootTime
    /\ nok >= 1

\* C6: under weak fairness of the worker, every adapter call returning, every
\* job put on the queue is taken off it and its device call issued, however
\* many jobs precede it and whether or not earlier jobs failed.
C6_EveryJobExecutes ==
    \A n \in 1..MaxQueueRequests : (njobs >= n) ~> (nissued >= n)

\* Two jobs were queued; the first one's call failed and the second's was issued.
C6_Witness == njobs >= 2 /\ nissued >= 2 /\ nok = 0

\* C7: jobs run in the order they were put on the queue (a job's id is its
\* number in that order): the jobs on the queue are in order, the job with
\* the worker is older than all of them, and the worker takes a job only
\* when the device calls of all older jobs have returned.
C7_EnqueueOrder ==
    /\ \A i \in DOMAIN operation_queue : operation_queue[i].id = ndeq + i
    /\ wpc = "get" => ndone = ndeq
    /\ wpc \in {"sleep", "exec", "inflight"} => (wjob.id = ndeq /\ ndone = ndeq - 1)

\* The worker sleeps on the second job put on the queue, the first one's call
\* having returned.
C7_Witness ==
    /\ wpc = "sleep"
    /\ wjob.id = 2
    /\ ndone = 1
    /\ nissued = 1

\* C8: when a deferred job's device call fails or raises, the worker does
\* not end, does not put the job back or call the device for it again,
\* leaves last_unifi_operation as it is, and is back at get() for the jobs
\* that follow.
C8_FailureIsolated ==
    [][/\ wpc' # "stopped"
       /\ (WorkerReturns /\ nok' = nok) =>
              /\ wpc' = "get"
              /\ operation_queue' = operation_queue
              /\ njobs' = njobs
              /\ nissued' = nissued
              /\ ndone' = ndone + 1
              /\ last_unifi_operation' = last_unifi_operation
      ]_vars

\* After a job whose call did not succeed, the worker has a later job's call
\* in flight.
C8_Witness == ndone >= 1 /\ nok = 0 /\ wpc = "inflight" /\ wjob.id = ndone + 1

\* This step serves a power_on request for port p: a request arrives, no
\* handler thread is taken, and the response is one for power_on.
PowerOnServed(p) ==
    /\ nreq' = nreq + 1
    /\ hpc' = hpc
    /\ Get(result', "action", "") = "power_on"
    /\ result'.port = p

\* C9: power_on_port(p), in every state, returns success with status
\* "no_action_needed", never a rate-limited result, calls no device, puts no
\* job on the queue, and changes only the power_on timestamp of p.
C9_PowerOnNoOp ==
    [][\A p \in Ports : PowerOnServed(p) =>
          /\ result'.success
          /\ Get(result', "status", "") = "no_action_needed"
          /\ ~Get(result', "rate_limited", FALSE)
          /\ UNCHANGED <<queue, worker, last_unifi_operation>>
          /\ last_operation_time' =
                 Put(last_operation_time, <<p, "power_on">>, now)
      ]_vars

\* A power_on answered for a port whose power_off is rate-limited and which
\* has a job waiting, after an earlier power_on of the same port.
C9_Witness ==
    /\ Get(result, "action", "") = "power_on"
    /\ _is_port_operation_rate_limited(result.port, "power_off")
    /\ \E i \in DOMAIN operation_queue : operation_queue[i].port = result.port

\* No handler has passed the rate-limit check without having recorded yet.
NoRequestUnrecorded == \A t \in Threads : hpc[t] # "record"

GateStep(t) == hpc[t] = "record" /\ hpc'[t] # "record"

\* C11: a PowerOff on p that passes the rate limiter e ticks after the last
\* successful device call on p, 0 <= e < 10 s, returns success with status
\* "queued" and queued_delay = max(0, 10 s - e), which lies in 0..10 s; it
\* puts exactly one job for p on the queue and calls no device itself.
\* (queued_delay is in ticks here, in seconds in the code.)
C11_OffAfterCycleQueued ==
    [][\A t \in Threads :
          LET p == hport[t]
              e == now - Get(last_unifi_operation, p, 0)
          IN  (/\ GateStep(t)
               /\ hop[t] = "power_off"
               /\ p \in DOMAIN last_unifi_operation
               /\ 0 <= e
               /\ e < CooldownTicks)
                  => /\ result'.success
                     /\ result'.action = "power_off"
                     /\ result'.port = p
                     /\ Get(result', "status", "") = "queued"
                     /\ result'.queued_delay = Max(0, CooldownTicks - e)
                     /\ result'.queued_delay \in 0..CooldownTicks
                     /\ hpc'[t] = "idle"
                     /\ nissued' = nissued
                     /\ njobs' = njobs + 1
                     /\ operation_queue' =
                            Append(operation_queue,
                                   [port |-> p, action |-> "power_off",
                                    delay |-> CooldownTicks - e, id |-> njobs + 1])
      ]_vars

\* A PowerOff was queued half a second or more after a PowerCycle of the
\* same port had succeeded.
C11_Witness ==
    /\ Get(result, "status", "") = "queued"
    /\ result.action = "power_off"
    /\ result.queued_delay > 0
    /\ result.queued_delay < CooldownTicks
    /\ <<result.port, "power_cycle">> \in DOMAIN last_operation_time
    /\ result.port \in DOMAIN last_unifi_operation

\* The key of the request handler t serves.
HandlerKey(t) == _get_operation_key(hport[t], hop[t])

\* The keys of the jobs on the queue and with the worker.
JobKeys ==
    {_get_operation_key(operation_queue[i].port, operation_queue[i].action) :
        i \in DOMAIN operation_queue}
    \cup (IF wpc \in {"sleep", "exec", "inflight"}
          THEN {_get_operation_key(wjob.port, wjob.action)} ELSE {})

\* C12: an accepted PowerOff/PowerCycle request writes
\* last_operation_time[(port, op)] once, with the clock reading, before its
\* device call or its enqueue; no later step of the request or of the worker
\* (a device call that fails or raises included) removes or rewrites the
\* entry, so a request of the same port and operation is accepted only when
\* the entry is 30 s old.
C12_AcceptanceThrottled ==
    [][/\ \A t \in Threads :
             /\ GateStep(t) =>
                    /\ HandlerKey(t) \in DOMAIN last_operation_time'
                    /\ last_operation_time'[HandlerKey(t)] = now
             /\ hpc'[t] \in {"exec", "inflight"} =>
                    HandlerKey(t)' \in DOMAIN last_operation_time'
             /\ (hpc[t] \in {"exec", "inflight"} /\ hpc'[t] # hpc[t]) =>
                    last_operation_time' = last_operation_time
             /\ (hpc[t] = "idle" /\ hpc'[t] = "record") =>
                    \/ HandlerKey(t)' \notin DOMAIN last_operation_time
                    \/ now - last_operation_time[HandlerKey(t)'] >= RateLimitTicks
       /\ JobKeys' \subseteq DOMAIN last_operation_time'
       /\ \A k \in DOMAIN last_operation_time :
             /\ k \in DOMAIN last_operation_time'
             /\ (k[2] \in LimitedOps /\ last_operation_time'[k] # last_operation_time[k])
                    => \E t \in Threads : GateStep(t) /\ HandlerKey(t) = k
      ]_vars

\* A request is rejected although no device call has succeeded and no job
\* was queued: the accepted request before it failed.
C12_Witness ==
    /\ Rejected
    /\ result.at > last_operation_time[_get_operation_key(result.port, result.action)]
    /\ last_unifi_operation = <<>>
    /\ njobs = 0
    /\ \A t \in Threads : hpc[t] = "idle"

\* Device calls the worker has issued that have not returned.
WorkerCallsInFlight == nissued - ndone

\* C13: at most one device call issued by the queue worker is in flight, in
\* every reachable state, whichever ports its jobs are for: the worker
\* issues a call only when all its earlier calls have returned.
C13_OneDeferredCall ==
    /\ WorkerCallsInFlight \in {0, 1}
    /\ WorkerCallsInFlight = 1 <=> wpc = "inflight"
    /\ wpc = "exec" => WorkerCallsInFlight = 0

\* A job for another port waits while the worker's call is in flight.
C13_Witness ==
    /\ wpc = "inflight"
    /\ WorkerCallsInFlight = 1
    /\ Len(operation_queue) >= 1
    /\ operation_queue[1].port # wjob.port

\* The clock reading n seconds after the start.
AtSecond(n) == BootTime + n * TicksPerSec

\* The history after the scenario's PowerCycle of p at t=0 has succeeded, and
\* after its PowerOff at t=2 has been recorded as well.
AfterCycle(p) ==
    /\ last_operation_time = (<<p, "power_cycle">> :> AtSecond(0))
    /\ last_unifi_operation = (p :> AtSecond(0))

AfterCycleAndOff(p) ==
    /\ last_operation_time =
           (<<p, "power_cycle">> :> AtSecond(0)) @@ (<<p, "power_off">> :> AtSecond(2))
    /\ last_unifi_operation = (p :> AtSecond(0))

\* This step starts (accepts) or rejects a request op on p.
AcceptStep(p, op) ==
    \E t \in Threads :
        hpc[t] = "idle" /\ hpc'[t] = "record" /\ hport'[t] = p /\ hop'[t] = op

RejectStep(p, op) ==
    /\ nreq' = nreq + 1
    /\ hpc' = hpc
    /\ Get(result', "rate_limited", FALSE)
    /\ result'.port = p
    /\ result'.action = op

\* C14: on a port with an empty history and a succeeding adapter, PowerCycle
\* at t=0 is executed at once and returns "cycling"; PowerOff at t=2 is
\* accepted and returns "queued" with queued_delay 8 s; PowerOff at t=3 is
\* rejected with rate_limited and retry_after 29.  (The scenario's port 3
\* is any port here.)
C14_Scenario ==
    [][\A p \in Ports, t \in Threads :
          /\ (/\ GateStep(t) /\ hport[t] = p /\ hop[t] = "power_cycle"
              /\ now = AtSecond(0)
              /\ last_operation_time = <<>> /\ last_unifi_operation = <<>>)
                 => hpc'[t] = "exec"
          /\ (/\ hpc[t] = "inflight" /\ hpc'[t] = "idle"
              /\ hport[t] = p /\ hop[t] = "power_cycle"
              /\ now = AtSecond(0)
              /\ p \in DOMAIN last_unifi_operation' \ DOMAIN last_unifi_operation)
                 => /\ result'.success
                    /\ Get(result', "status", "") = "cycling"
                    /\ last_unifi_operation'[p] = AtSecond(0)
          /\ (now = AtSecond(2) /\ AfterCycle(p))
                 => ~RejectStep(p, "power_off")
          /\ (/\ GateStep(t) /\ hport[t] = p /\ hop[t] = "power_off"
              /\ now = AtSecond(2) /\ AfterCycle(p))
                 => /\ result'.success
                    /\ Get(result', "status", "") = "queued"
                    /\ result'.queued_delay = 8 * TicksPerSec
          /\ (now = AtSecond(3) /\ AfterCycleAndOff(p))
                 => /\ ~AcceptStep(p, "power_off")
                    /\ RejectStep(p, "power_off")
                          => (~result'.success /\ result'.retry_after = 29)
      ]_vars

\* The scenario has run to its end: the second PowerOff was rejected at t=3
\* with retry_after 29, the first one's job having a delay of 8 s.
C14_Witness ==
    /\ Rejected
    /\ result.action = "power_off"
    /\ result.at = AtSecond(3)
    /\ result.retry_after = 29
    /\ AfterCycleAndOff(result.port)
    /\ njobs = 1
    /\ \/ Len(operation_queue) = 1 /\ operation_queue[1].delay = 8 * TicksPerSec
       \/ wpc = "sleep" /\ wjob.delay = 8 * TicksPerSec

\* The number a sequence of decimal digits stands for.
RECURSIVE DecimalValue(_)
DecimalValue(digits) ==
    IF digits = <<>> THEN 0
    ELSE LET last == digits[Len(digits)]
             d == CHOOSE i \in 0..9 : Digit(i) = last
         IN  10 * DecimalValue(SubSeq(digits, 1, Len(digits) - 1)) + d

\* The last finished request was a PowerOn, PowerOff or PowerCycle.
MutatingResult == Get(result, "action", "") \in {"power_on", "power_off", "power_cycle"}

\* C15: the response to a PowerOn/PowerOff/PowerCycle request has code 429,
\* with a Retry-After header that reads as the result's retry_after, exactly
\* when the result has success = false and rate_limited = true; code 500 for
\* every other result with success = false; code 200 for every result with
\* success = true ("queued" and "no_action_needed" included).
C15_HttpMapping ==
    MutatingResult =>
        LET limited == ~result.success /\ Get(result, "rate_limited", FALSE)
        IN  /\ response.code = 429 <=> limited
            /\ limited =>
                   /\ "retry_after_header" \in DOMAIN response
                   /\ DecimalValue(response.retry_after_header) = result.retry_after
            /\ (~result.success /\ ~limited) => response.code = 500
            /\ result.success => response.code = 200
            /\ ~limited => "retry_after_header" \notin DOMAIN response

\* A 429 whose Retry-After header has two digits.
C15_Witness ==
    /\ MutatingResult
    /\ response.code = 429
    /\ Len(response.retry_after_header) = 2
    /\ result.retry_after = 29

\* A handler's device call and the worker's device call on the same port
\* are in flight at once.
CallsOverlap ==
    \E t \in Threads :
        hpc[t] = "inflight" /\ wpc = "inflight" /\ hport[t] = wjob.port

\* C16: the immediate and the deferred path do not exclude each other: a
\* handler past the gate issues its device call, and the worker past its
\* sleep issues its own, whatever call the other has in flight, so that a
\* state with both in flight on one port is reachable (the witness).
C16_PathsNotExcluded ==
    /\ wpc = "exec" => ENABLED WorkerCall
    /\ \A t \in Threads : hpc[t] = "exec" => ENABLED ImmediateCall(t)

\* Both calls are in flight on one port.
C16_Witness == CallsOverlap

\* The moves of a handler from one position to the next.
HandlerMoves ==
    {<<"idle", "record">>, <<"record", "exec">>, <<"record", "idle">>,
     <<"exec", "inflight">>, <<"inflight", "idle">>}

\* C17: an accepted PowerOff/PowerCycle request on p does one of two things.
\* If p has no last_unifi_operation entry, or one at least 10 s old, it
\* calls the device once itself (it goes on to issue the call and then to
\* wait for its answer, and returns after that) and puts nothing on the
\* queue.  If the entry is less than 10 s old, it puts exactly one job on
\* the queue and returns without a device call.
C17_ImmediateOrQueued ==
    [][\A t \in Threads :
          LET p == hport[t]
              open == \/ p \notin DOMAIN last_unifi_operation
                      \/ now - last_unifi_operation[p] >= CooldownTicks
          IN  /\ hpc'[t] # hpc[t] => <<hpc[t], hpc'[t]>> \in HandlerMoves
              /\ (GateStep(t) /\ open) =>
                     /\ hpc'[t] = "exec"
                     /\ UNCHANGED queue
              /\ (GateStep(t) /\ ~open) =>
                     /\ hpc'[t] = "idle"
                     /\ njobs' = njobs + 1
                     /\ Len(operation_queue') = Len(operation_queue) + 1
                     /\ operation_queue'[Len(operation_queue')].port = p
                     /\ operation_queue'[Len(operation_queue')].action = hop[t]
                     /\ Get(result', "status", "") = "queued"
              /\ (hpc[t] \in {"exec", "inflight"} /\ hpc'[t] # hpc[t]) =>
                     /\ njobs' = njobs
                     /\ operation_queue' = operation_queue
      ]_vars

\* A handler is about to call the device exactly 10 s after the last
\* successful call on its port.
C17_Witness ==
    \E t \in Threads :
        /\ hpc[t] = "exec"
        /\ hport[t] \in DOMAIN last_unifi_operation
        /\ now - last_unifi_operation[hport[t]] = CooldownTicks

\* C18: a PowerOff/PowerCycle request rejected by the rate limiter changes
\* nothing: last_operation_time (the rejected key's own entry included, so
\* a rejected retry does not extend the window), last_unifi_operation and
\* the queue stay as they are, and no device call is made for it.
C18_RejectionNoEffect ==
    [][\A p \in Ports, op \in LimitedOps :
          RejectStep(p, op) =>
              /\ UNCHANGED <<last_operation_time, last_unifi_operation>>
              /\ UNCHANGED <<operation_queue, unfinished_tasks, njobs>>
              /\ UNCHANGED <<wpc, wjob, nissued, ndone>>
              /\ UNCHANGED <<hpc, hport, hop>>
      ]_vars

\* A request was rejected half a second or more after the one that was
\* accepted, whose record is as it was.
C18_Witness ==
    /\ Rejected
    /\ result.action \in LimitedOps
    /\ result.retry_after < rate_limit_seconds
    /\ last_operation_time[_get_operation_key(result.port, result.action)] < result.at
    /\ now = result.at

\* A device call on p, by handler t or by the worker, returns in this step,
\* and returns success.
HandlerCallSucceeds(t, p) ==
    /\ hpc[t] = "inflight"
    /\ hpc'[t] = "idle"
    /\ hport[t] = p
    /\ result'.success
    /\ Get(result', "status", "") = "cycling"

WorkerCallSucceeds(p) == WorkerReturns /\ wjob.port = p /\ nok' = nok + 1

\* A device call of handler t returns in this step, and reports a failure.
HandlerCallFails(t) ==
    /\ hpc[t] = "inflight"
    /\ hpc'[t] = "idle"
    /\ ~result'.success

\* C19: last_unifi_operation[p] changes only in the step in which a device
\* call on p returns success, to a handler or to the worker, and then to the
\* clock reading of that step; a failed call, an enqueue, a rejected request,
\* a PowerOn, a status query and every operation on another port leave it
\* as it is.  No entry is ever removed.
C19_DeviceActivityOnSuccess ==
    [][/\ \A p \in Ports :
             (Get(last_unifi_operation', p, 0) # Get(last_unifi_operation, p, 0))
                 => /\ \/ \E t \in Threads : HandlerCallSucceeds(t, p)
                       \/ WorkerCallSucceeds(p)
                    /\ last_unifi_operation'[p] = now
       /\ DOMAIN last_unifi_operation \subseteq DOMAIN last_unifi_operation'
       /\ (\E t \in Threads : HandlerCallFails(t))
              => last_unifi_operation' = last_unifi_operation
       /\ (WorkerReturns /\ nok' = nok)
              => last_unifi_operation' = last_unifi_operation
       /\ (nreq' = nreq + 1 \/ njobs' = njobs + 1)
              => last_unifi_operation' = last_unifi_operation
      ]_vars

\* A device call on a port without an entry has failed, while another port
\* has its entry from a call that succeeded.
C19_Witness ==
    /\ Get(result, "error", "") = "HTTP"
    /\ result.port \notin DOMAIN last_unifi_operation
    /\ last_unifi_operation # <<>>

\* This step serves a status request for port p.
StatusServed(p) ==
    /\ nreq' = nreq + 1
    /\ hpc' = hpc
    /\ Get(result', "action", "") = "status"
    /\ result'.port = p

\* C20: get_port_status(p) only reads: it changes neither dict nor the
\* queue, makes no device call, and its answer is "status: stopped" if the
\* recorded power_off time of p is later than its recorded power_on time
\* (0 for a time not recorded) and "status: running" if not, whatever the
\* queue holds and whatever the device calls returned.
C20_StatusReadOnly ==
    [][\A p \in Ports :
          StatusServed(p) =>
              /\ UNCHANGED <<last_operation_time, last_unifi_operation>>
              /\ UNCHANGED <<operation_queue, unfinished_tasks, njobs>>
              /\ UNCHANGED <<wpc, wjob, nissued, ndone, nok>>
              /\ result'.success
              /\ result'.status =
                     IF Get(last_operation_time, <<p, "power_off">>, 0)
                            > Get(last_operation_time, <<p, "power_on">>, 0)
                     THEN "status: stopped"
                     ELSE "status: running"
              /\ response' = [code |-> 200, body |-> result'.status]
      ]_vars

\* "status: stopped" is reported for a port whose PowerOff job still waits
\* on the queue.
C20_Witness ==
    /\ Get(result, "action", "") = "status"
    /\ result.status = "status: stopped"
    /\ \E i \in DOMAIN operation_queue :
           /\ operation_queue[i].port = result.port
           /\ operation_queue[i].action = "power_off"
    /\ nissued = 0

\* A request op on p was accepted less than 30 s ago: its record is younger
\* than the window, or a handler has accepted it and is about to record it.
RecentlyAccepted(p, op) ==
    \/ IsRateLimitedAt(last_operation_time, p, op, now)
    \/ \E t \in Threads : hpc[t] = "record" /\ hport[t] = p /\ hop[t] = op

\* C21: the limiter is keyed by port and operation together.  A PowerOff or
\* PowerCycle request on p is rejected if and only if a request of the same
\* operation on the same port was accepted less than 30 s before; requests
\* accepted for another operation on p, or for the same operation on
\* another port, do not count.
C21_KeyedPerPortAndOperation ==
    [][\A p \in Ports, op \in LimitedOps :
          /\ RejectStep(p, op) => RecentlyAccepted(p, op)
          /\ AcceptStep(p, op) => ~RecentlyAccepted(p, op)
      ]_vars

====
